---- MODULE Spec2Model ----
(***************************************************************************)
(* Foreman daily reports: the entry list, the form draft, local            *)
(* persistence and the PDF / JSON export pipeline of src/app/page.tsx,     *)
(* together with the start-up effects of the remote-store variant of the   *)
(* same page (src/unnamed/part_001).                                       *)
(*                                                                         *)
(* Text values are sequences of one-character strings, so that trim and    *)
(* escapeHTML are computed character by character.                         *)
(***************************************************************************)
EXTENDS Integers, Sequences, FiniteSets, TLC

(* ------------------------------ bounds ------------------------------- *)

\* entries kept in the list at most
MaxEntries == 2
\* generatePDF invocations per run (each keeps its own record)
MaxCalls == 2
\* exportJSON invocations per run at most
MaxJsonExports == 1
\* scaled image heights html2canvas can produce: 0..MaxImgHeight
MaxImgHeight == 2
\* width and height of one PDF page (pdf.internal.pageSize), in the unit of
\* the image height
PageWidth == 1
PageHeight == 1
\* material items in one draft at most
MaxItems == 2
\* onPhotoUpload invocations per run at most
MaxUploads == 1
\* fillWeatherFromLocation invocations per run at most
MaxLookups == 1
\* the quota of local storage, in data URLs: a value that holds more of them
\* (each is a whole image in base64) does not fit
StorageQuota == 1
\* material items of an entry handed to renderReportHTML at most
MaxRenderItems == 2
\* entries of a list handed to renderAllReportsHTML at most
MaxRenderEntries == 3

(* --------------------------- text helpers ---------------------------- *)

Range(s) == {s[i] : i \in 1..Len(s)}

IsSpace(c) == c = " "

RECURSIVE TrimStart(_)
TrimStart(s) ==
  IF s # <<>> /\ IsSpace(Head(s)) THEN TrimStart(Tail(s)) ELSE s

RECURSIVE TrimEnd(_)
TrimEnd(s) ==
  IF s # <<>> /\ IsSpace(s[Len(s)]) THEN TrimEnd(SubSeq(s, 1, Len(s) - 1)) ELSE s

\* String.prototype.trim
Trim(s) == TrimEnd(TrimStart(s))

\* the literal "None"
NoneText == <<"N", "o", "n", "e">>

\* the literal "site" used when an entry has no site
SiteFallback == <<"s", "i", "t", "e">>

(* ---------------------------- entry model ---------------------------- *)

\* the first of the twelve default categories
DEFAULT_CATEGORIES ==
  << <<"D", "e", "m", "o", "l", "i", "t", "i", "o", "n">> >>

\* the outcomes of Math.random().toString(36).slice(2, 9) the model keeps
RandomSuffixes == {"a", "b"}

\* uid(prefix): the prefix and a random suffix; nothing makes it fresh
uid(prefix) == {<<prefix, r>> : r \in RandomSuffixes}

\* Object.fromEntries(DEFAULT_CATEGORIES.map((c) => [c, 0])); a
\* CategoryProgress is the insertion-ordered sequence of its key/value pairs
ZeroProgress ==
  [i \in 1..Len(DEFAULT_CATEGORIES) |-> [k |-> DEFAULT_CATEGORIES[i], v |-> 0]]

\* the clock: new Date().toISOString() / Date.now(), noon UTC of 6 March
Today == "2024-03-06T12:00:00.000Z"

\* the object literal both the initial useState and resetForm build
BlankEntry(id, site) ==
  [id |-> id, date |-> Today, site |-> site, area |-> <<>>,
   categoryProgress |-> ZeroProgress,
   weather |-> <<>>, obstacles |-> <<>>, notes |-> <<>>, manpower |-> <<>>,
   safetyIncidents |-> NoneText, materialsRequired |-> FALSE,
   materialItems |-> <<>>, photos |-> <<>>]

\* { id: uid("mat"), name: "", quantity: "", neededBy: "", notes: "" }
BlankItem(id) ==
  [id |-> id, name |-> <<>>, quantity |-> <<>>, neededBy |-> <<>>, notes |-> <<>>]

\* new Date(d): the day of March 2024 and the UTC hour of the instant; a
\* date-only string is parsed as midnight UTC
ParseDate(d) ==
  CASE d = "2024-03-06T12:00:00.000Z" -> [day |-> 6, hour |-> 12]
    [] d = "2024-03-05T00:00:00.000Z" -> [day |-> 5, hour |-> 0]
    [] d = "2024-03-06T00:00:00.000Z" -> [day |-> 6, hour |-> 0]
    [] d = "2024-03-05" -> [day |-> 5, hour |-> 0]
    [] d = "2024-03-06" -> [day |-> 6, hour |-> 0]

\* `${yyyy}-${mm}-${dd}` with mm and dd padded to two digits
DayText(day) ==
  CASE day = 4 -> "2024-03-04"
    [] day = 5 -> "2024-03-05"
    [] day = 6 -> "2024-03-06"
    [] day = 7 -> "2024-03-07"

\* getFullYear / getMonth / getDate of an instant where local time is UTC
\* plus offset hours
LocalDay(t, offset) ==
  IF t.hour + offset < 0 THEN t.day - 1
  ELSE IF t.hour + offset >= 24 THEN t.day + 1
  ELSE t.day

(* ------------------------------- state ------------------------------- *)

VARIABLES
  entries,     \* useState<Entry[]>: the in-memory entry list
  storage,     \* localStorage["pmag_daily_entries"]
  form,        \* useState<Entry>: the draft
  reportRef,   \* reportRef.current: "null" before the commit, "node" after
  container,   \* node.innerHTML of the hidden render target
  calls,       \* the generatePDF invocations: pc, saved original, argument
  download,    \* the file the last a.click() / pdf.save() emitted
  downloads,   \* how many files have been emitted
  rows,        \* the "entries" table of the remote store, newest row first
  effects,     \* the start-up effects of the remote-store page: their pc
  rendered,    \* the last renderReportHTML evaluation: argument and result
  timezone,    \* the browser's time zone: local time minus UTC, in hours
  uploads,     \* the onPhotoUpload invocations: pc, files, photos read
  lookups      \* the fillWeatherFromLocation invocations: pc

entryVars == <<entries, storage, form>>
exportVars == <<reportRef, container, calls, download, downloads>>
otherVars == <<rows, effects, rendered, timezone, uploads, lookups>>
vars ==
  <<entries, storage, form, reportRef, container, calls, download, downloads,
    rows, effects, rendered, timezone, uploads, lookups>>

\* yyyy-mm-dd of new Date(d), by the local getters
LocalDate(d) == DayText(LocalDay(ParseDate(d), timezone))

(* ------------------------- report rendering -------------------------- *)

\* The markup is a sequence of pieces: a piece of the template ("markup") or
\* one character, or one entity, that an interpolated value contributed
\* ("text").
Markup(m) == <<[k |-> "markup", v |-> m]>>

Interpolate(s) == [i \in 1..Len(s) |-> [k |-> "text", v |-> s[i]]]

RECURSIVE Concat(_)
Concat(ss) == IF ss = <<>> THEN <<>> ELSE Head(ss) \o Concat(Tail(ss))

\* Array.prototype.join
RECURSIVE Join(_, _)
Join(ss, sep) ==
  IF ss = <<>> THEN <<>>
  ELSE IF Len(ss) = 1 THEN ss[1]
  ELSE ss[1] \o sep \o Join(Tail(ss), sep)

\* the replacement table of escapeHTML
EscapeChar(c) ==
  CASE c = "&" -> "&amp;"
    [] c = "<" -> "&lt;"
    [] c = ">" -> "&gt;"
    [] c = "\"" -> "&quot;"
    [] c = "'" -> "&#39;"
    [] OTHER -> c

\* (str || "").replace(/[&<>"']/g, ...)
escapeHTML(str) == [i \in 1..Len(str) |-> EscapeChar(str[i])]

\* a || b on strings: the empty string is falsy
OrElse(a, b) == IF a = <<>> THEN b ELSE a

\* `${v}` for a number
NumberText(v) == <<ToString(v)>>

catRows(e) ==
  Concat([i \in 1..Len(e.categoryProgress) |->
    Markup("<tr><td>")
      \o Interpolate(escapeHTML(e.categoryProgress[i].k))
      \o Markup("</td><td>")
      \o Interpolate(NumberText(e.categoryProgress[i].v))
      \o Markup("%</td></tr>")])

matRow(m) ==
  Markup("<tr><td>") \o Interpolate(escapeHTML(m.name))
    \o Markup("</td><td>") \o Interpolate(escapeHTML(m.quantity))
    \o Markup("</td><td>") \o Interpolate(OrElse(m.neededBy, <<>>))
    \o Markup("</td><td>") \o Interpolate(escapeHTML(m.notes))
    \o Markup("</td></tr>")

\* a materials block that looks at the items only
matTableItemsOnly(e) ==
  IF Len(e.materialItems) # 0
  THEN Markup("<table><tr><th>Item</th><th>Qty</th><th>Needed By</th><th>Notes</th></tr>")
         \o Concat([i \in 1..Len(e.materialItems) |-> matRow(e.materialItems[i])])
         \o Markup("</table>")
  ELSE Markup("<div>No</div>")

matTable(e) ==
  IF e.materialsRequired /\ Len(e.materialItems) # 0
  THEN Markup("<table><tr><th>Item</th><th>Qty</th><th>Needed By</th><th>Notes</th></tr>")
         \o Concat([i \in 1..Len(e.materialItems) |-> matRow(e.materialItems[i])])
         \o Markup("</table>")
  ELSE Markup("<div>No</div>")

photoGrid(e) ==
  IF Len(e.photos) # 0
  THEN Markup("<div><h3>Photos</h3><div>")
         \o Concat([i \in 1..Len(e.photos) |->
              Markup("<img src='") \o Interpolate(<<e.photos[i]>>) \o Markup("'/>")])
         \o Markup("</div></div>")
  ELSE <<>>

renderReportHTML(e) ==
  Markup("<div><h1>Renovation Daily Report</h1><div>Date: ")
    \o Interpolate(<<LocalDate(e.date)>>)
    \o Markup("</div><table><tr><td><strong>Site / Project</strong><br/>")
    \o Interpolate(escapeHTML(e.site))
    \o Markup("</td><td><strong>Area / Zone</strong><br/>")
    \o Interpolate(escapeHTML(e.area))
    \o Markup("</td></tr><tr><td><strong>Weather</strong><br/>")
    \o Interpolate(escapeHTML(e.weather))
    \o Markup("</td><td><strong>Manpower</strong><br/>")
    \o Interpolate(escapeHTML(e.manpower))
    \o Markup("</td></tr><tr><td><strong>Obstacles</strong><br/>")
    \o Interpolate(OrElse(escapeHTML(e.obstacles), <<"-">>))
    \o Markup("</td><td><strong>Safety Incidents</strong><br/>")
    \o Interpolate(OrElse(escapeHTML(e.safetyIncidents), NoneText))
    \o Markup("</td></tr><tr><td colspan=2><strong>Notes</strong><br/>")
    \o Interpolate(OrElse(escapeHTML(e.notes), <<"-">>))
    \o Markup("</td></tr></table><div><h3>Category Progress</h3><table><tr><th>Category</th><th>Progress</th></tr>")
    \o catRows(e)
    \o Markup("</table></div><div><h3>Materials Required</h3>")
    \o matTable(e)
    \o Markup("</div>")
    \o photoGrid(e)
    \o Markup("</div>")

PageBreak == Markup("<div style='page-break-after:always'></div>")

\* every report followed by a page break, the last one included
renderAllTrailing(all) ==
  Concat([i \in 1..Len(all) |-> renderReportHTML(all[i]) \o PageBreak])

renderAllReportsHTML(all) ==
  Join([i \in 1..Len(all) |-> renderReportHTML(all[i])], PageBreak)

(* ----------------------------- persistence --------------------------- *)

\* JSON.stringify / JSON.parse of an entry list: every field is a string, a
\* finite number, a boolean or an array of these, which JSON keeps
JSONStringify(list) == [json |-> list]

JSONParse(raw) == raw.json


(* ------------------------------- Init -------------------------------- *)

NoFile ==
  [kind |-> "none", name |-> [prefix |-> "", date |-> "", site |-> <<>>],
   pages |-> <<>>, json |-> <<>>]

\* steps: the statements with an effect outside the call that it has
\* executed, in execution order
NoCall ==
  [pc |-> "idle", original |-> <<>>, kind |-> "none", entry |-> <<>>,
   error |-> "none", steps |-> <<>>]

\* the local page has no start-up effect
NoEffects == [prefill |-> "none", load |-> "none"]

NotRendered ==
  [kind |-> "none", arg |-> BlankEntry(<<"entry", "a">>, <<>>), out |-> <<>>]

\* entry lists an earlier session could have left in local storage
StoredA ==
  [BlankEntry(<<"entry", "a">>, <<"P">>) EXCEPT !.date = "2024-03-05T00:00:00.000Z"]

StoredB == BlankEntry(<<"entry", "b">>, <<>>)

StoredLists == {<<>>, <<StoredA>>, <<StoredB, StoredA>>}

\* the state the component is constructed in: the entry list parsed from
\* local storage, a blank draft with a random id, an unset ref
InitWith(stored) ==
  /\ storage = JSONStringify(stored)
  /\ entries = JSONParse(storage)
  /\ form \in {BlankEntry(id, <<>>) : id \in uid("entry")}
  /\ reportRef = "null"
  /\ container = <<>>
  /\ calls = [i \in 1..MaxCalls |-> NoCall]
  /\ download = NoFile
  /\ downloads = 0

LocalOnly ==
  /\ rows = <<>>
  /\ effects = NoEffects
  /\ rendered = NotRendered
  /\ uploads = <<>>
  /\ lookups = <<>>

\* time zones a browser can be in: west of, at and east of Greenwich
TimeZones == {-5, 0, 5}

\* a first session: nothing stored
Init == InitWith(<<>>) /\ LocalOnly /\ timezone = 0

\* a later session
InitExport ==
  /\ \E stored \in StoredLists : InitWith(stored)
  /\ LocalOnly
  /\ timezone = 0

\* a later session, in any time zone
InitZones ==
  /\ \E stored \in StoredLists : InitWith(stored)
  /\ LocalOnly
  /\ timezone \in TimeZones

(* --------------------------- the page mounts ------------------------- *)

\* React commits <div ref={reportRef} className="hidden" />; the buttons and
\* inputs exist from here on
Mount ==
  /\ reportRef = "null"
  /\ reportRef' = "node"
  /\ UNCHANGED <<entryVars, container, calls, download, downloads>>
  /\ UNCHANGED otherVars

(* ------------------------------ the form ----------------------------- *)

SiteInputs == {<<>>, <<"P">>, <<" ", "P", " ">>}

\* onChange of the Site / Project input
SetSite(v) ==
  /\ reportRef = "node"
  /\ form' = [form EXCEPT !.site = v]
  /\ UNCHANGED <<entries, storage, exportVars>>
  /\ UNCHANGED otherVars

\* the draft resetForm sets
ResetFormTo(id) == BlankEntry(id, <<>>)

resetForm ==
  /\ reportRef = "node"
  /\ \E id \in uid("entry") : form' = ResetFormTo(id)
  /\ UNCHANGED <<entries, storage, exportVars>>
  /\ UNCHANGED otherVars

(* ----------------------------- materials ----------------------------- *)

AddedItem(items, id) == Append(items, BlankItem(id))

addMaterialItem ==
  /\ reportRef = "node"
  /\ Len(form.materialItems) < MaxItems
  /\ \E id \in uid("mat") :
       form' = [form EXCEPT !.materialItems = AddedItem(@, id)]
  /\ UNCHANGED <<entries, storage, exportVars>>
  /\ UNCHANGED otherVars

RemovedItem(items, id) == LET Keep(m) == m.id # id IN SelectSeq(items, Keep)

removeMaterialItem(id) ==
  /\ reportRef = "node"
  /\ form' = [form EXCEPT !.materialItems = RemovedItem(@, id)]
  /\ UNCHANGED <<entries, storage, exportVars>>
  /\ UNCHANGED otherVars

\* { ...m, ...patch }: the fields of the patch replace those of the item
Patched(m, patch) ==
  [f \in DOMAIN m |-> IF f \in DOMAIN patch THEN patch[f] ELSE m[f]]

UpdatedItems(items, id, patch) ==
  [i \in 1..Len(items) |-> IF items[i].id = id THEN Patched(items[i], patch) ELSE items[i]]

\* patches the inputs of a material row send: one field each
Patches == {[name |-> <<"a">>], [notes |-> <<"n">>]}

updateMaterialItem(id, patch) ==
  /\ reportRef = "node"
  /\ form' = [form EXCEPT !.materialItems = UpdatedItems(@, id, patch)]
  /\ UNCHANGED <<entries, storage, exportVars>>
  /\ UNCHANGED otherVars

(* ------------------------------- photos ------------------------------ *)

\* String(r.result) of readAsDataURL(f)
DataURL(f) == <<"data:", f>>

\* what the file input can hand over
FileLists == {<<"f1">>, <<"f2", "f1">>}

\* "added" once every file has been read, in the order of the files
Added(files) == [i \in 1..Len(files) |-> DataURL(files[i])]

\* onPhotoUpload up to its first await: the reads begin. The record keeps the
\* id of the draft on screen when the files were chosen.
onPhotoUpload(files) ==
  /\ reportRef = "node"
  /\ Len(uploads) < MaxUploads
  /\ uploads' = Append(uploads, [pc |-> "reading", files |-> files, draft |-> form.id])
  /\ UNCHANGED <<entryVars, exportVars, rows, effects, rendered, timezone, lookups>>

\* [...s.photos, ...added]
WithPhotos(photos, added) == photos \o added

\* the last read of an upload settles: every file was read and setForm appends
\* the photos to the draft of that moment, or one read failed and the await
\* throws
PhotoReadsSettle(u, ok) ==
  /\ uploads[u].pc = "reading"
  /\ uploads' = [uploads EXCEPT ![u].pc = IF ok THEN "done" ELSE "failed"]
  /\ form' = IF ok
             THEN [form EXCEPT !.photos = WithPhotos(@, Added(uploads[u].files))]
             ELSE form
  /\ UNCHANGED <<entries, storage, exportVars, rows, effects, rendered, timezone, lookups>>

\* s.photos.filter((_, i) => i !== idx), idx counted from 0
WithoutPhoto(photos, idx) ==
  LET kept == SelectSeq([i \in 1..Len(photos) |-> [i |-> i - 1, p |-> photos[i]]],
                        LAMBDA x : x.i # idx)
  IN [i \in 1..Len(kept) |-> kept[i].p]

removePhoto(idx) ==
  /\ reportRef = "node"
  /\ form' = [form EXCEPT !.photos = WithoutPhoto(@, idx)]
  /\ UNCHANGED <<entries, storage, exportVars>>
  /\ UNCHANGED otherVars

(* ------------------------------- weather ----------------------------- *)

\* what can be typed into the Weather input
WeatherInputs == {<<"w">>}

\* onChange of the Weather input
SetWeather(v) ==
  /\ reportRef = "node"
  /\ form' = [form EXCEPT !.weather = v]
  /\ UNCHANGED <<entries, storage, exportVars>>
  /\ UNCHANGED otherVars

\* fillWeatherFromLocation up to its first await: the position is requested.
\* The record keeps the id of the draft on screen when the button was pressed.
fillWeatherFromLocation ==
  /\ reportRef = "node"
  /\ Len(lookups) < MaxLookups
  /\ lookups' = Append(lookups, [pc |-> "looking", draft |-> form.id])
  /\ UNCHANGED <<entryVars, exportVars, rows, effects, rendered, timezone, uploads>>

\* a field of the answer is <<v>>, or <<>> when it is missing (undefined)
Undefined == <<>>

\* typeof v === "number" && !isNaN(v) ? `${v}${unit}` : ""
fmt(v, unit) == IF v # Undefined THEN <<ToString(v[1]), unit>> ELSE <<>>

\* map[code] || "Weather"
decodeWeatherCode(code) ==
  IF code = Undefined THEN <<"Weather">>
  ELSE CASE code[1] = 0 -> <<"Clear">>
         [] code[1] = 3 -> <<"Overcast">>
         [] OTHER -> <<"Weather">>

\* data?.current || {}
CurrentOf(data) ==
  IF data.current # <<>> THEN data.current[1]
  ELSE [weather_code |-> Undefined, temperature_2m |-> Undefined,
        wind_speed_10m |-> Undefined, relative_humidity_2m |-> Undefined,
        precipitation |-> Undefined]

\* the template of weatherText, trimmed; a piece is one character or one run
\* of characters without a space at either end
weatherText(c) ==
  Trim(decodeWeatherCode(c.weather_code) \o <<" ">> \o fmt(c.temperature_2m, "C")
         \o <<" ", "|", " ", "Wind", " ">> \o fmt(c.wind_speed_10m, "km/h")
         \o <<" ", "|", " ", "RH", " ">> \o fmt(c.relative_humidity_2m, "%")
         \o <<" ", "|", " ", "Rain", " ">> \o fmt(c.precipitation, "mm"))

\* bodies res.json() can yield: a forecast, and the JSON body of an error
\* response (fetch resolves whatever the HTTP status is)
WeatherAnswers ==
  {[current |-> <<[weather_code |-> <<0>>, temperature_2m |-> <<21>>,
                   wind_speed_10m |-> <<9>>, relative_humidity_2m |-> <<40>>,
                   precipitation |-> <<0>>]>>,
    error |-> FALSE],
   [current |-> <<>>, error |-> TRUE]}

\* the awaits of the try block are all fulfilled: setForm writes weatherText
WeatherResolves(l, data) ==
  /\ lookups[l].pc = "looking"
  /\ lookups' = [lookups EXCEPT ![l].pc = IF data.error THEN "error-answer" ELSE "done"]
  /\ form' = [form EXCEPT !.weather = weatherText(CurrentOf(data))]
  /\ UNCHANGED <<entries, storage, exportVars, rows, effects, rendered, timezone, uploads>>

\* err?.message || String(err) of what the try block can throw
ErrorTexts == {<<"denied">>}

\* `Weather lookup failed: ${...}`
LookupFailed(err) == <<"Weather", " ", "lookup", " ", "failed:", " ">> \o err

\* s.weather || `Weather lookup failed: ...`
Fallback(weather, err) == OrElse(weather, LookupFailed(err))

\* geolocation is missing or rejects, fetch rejects or res.json() rejects:
\* the catch block runs
WeatherFails(l, err) ==
  /\ lookups[l].pc = "looking"
  /\ lookups' = [lookups EXCEPT ![l].pc = "failed"]
  /\ form' = [form EXCEPT !.weather = Fallback(@, err)]
  /\ UNCHANGED <<entries, storage, exportVars, rows, effects, rendered, timezone, uploads>>

(* ---------------------------- save / delete -------------------------- *)

Cleaned(f) == [f EXCEPT !.site = Trim(f.site), !.area = Trim(f.area)]

\* a save that overwrites the newest entry instead of prepending
SaveNextInPlace(f, list) ==
  IF list = <<>> THEN <<Cleaned(f)>> ELSE <<Cleaned(f)>> \o Tail(list)

SaveNext(f, list) == <<Cleaned(f)>> \o list

\* the size of a serialized entry list, in data URLs
RECURSIVE StoredSize(_)
StoredSize(list) ==
  IF list = <<>> THEN 0 ELSE Len(Head(list).photos) + StoredSize(Tail(list))

\* localStorage.setItem stores the value, or throws QuotaExceededError and
\* leaves the stored value as it was
SetItem(old, list) ==
  IF StoredSize(list) > StorageQuota
  THEN [thrown |-> TRUE, value |-> old]
  ELSE [thrown |-> FALSE, value |-> JSONStringify(list)]

\* setEntries(next), then setItem, then resetForm; a throw of setItem ends the
\* handler there, with the state update already queued
saveEntry ==
  /\ reportRef = "node"
  /\ Len(entries) < MaxEntries
  /\ LET next == SaveNext(form, entries)
         set == SetItem(storage, next)
     IN /\ entries' = next
        /\ storage' = set.value
        /\ IF set.thrown THEN form' = form
           ELSE \E id \in uid("entry") : form' = ResetFormTo(id)
  /\ UNCHANGED exportVars
  /\ UNCHANGED otherVars

DeleteNext(id, list) == LET Keep(e) == e.id # id IN SelectSeq(list, Keep)

deleteEntry(id) ==
  /\ reportRef = "node"
  /\ LET next == DeleteNext(id, entries) IN
       /\ entries' = next
       /\ storage' = SetItem(storage, next).value
  /\ UNCHANGED <<form, exportVars>>
  /\ UNCHANGED otherVars

(* ------------------------------ exports ------------------------------ *)

JsonFile(list) ==
  [kind |-> "json",
   name |-> [prefix |-> "daily-report", date |-> LocalDate(Today), site |-> <<>>],
   pages |-> <<>>, json |-> list]

NumPdf == Cardinality({i \in 1..MaxCalls : calls[i].pc = "saved"})

\* an export that also empties the list it has just serialized
exportJSONClearing ==
  /\ reportRef = "node"
  /\ downloads - NumPdf < MaxJsonExports
  /\ download' = JsonFile(entries)
  /\ downloads' = downloads + 1
  /\ entries' = <<>>
  /\ UNCHANGED <<storage, form, reportRef, container, calls>>
  /\ UNCHANGED otherVars

exportJSON ==
  /\ reportRef = "node"
  /\ downloads - NumPdf < MaxJsonExports
  /\ download' = JsonFile(entries)
  /\ downloads' = downloads + 1
  /\ UNCHANGED <<entryVars, reportRef, container, calls>>
  /\ UNCHANGED otherVars

HasFreeCall == \E i \in 1..MaxCalls : calls[i].pc = "idle"

\* the first invocation record not used yet
FreeCall == CHOOSE i \in 1..MaxCalls :
              calls[i].pc = "idle" /\ \A j \in 1..(i - 1) : calls[j].pc # "idle"

\* what generatePDF(entry?) is called with: one entry of the list, or nothing
PdfArgs ==
  {[kind |-> "all", entry |-> <<>>]}
    \cup {[kind |-> "one", entry |-> <<entries[i]>>] : i \in 1..Len(entries)}

TargetLayout(arg) ==
  IF arg.kind = "one" THEN renderReportHTML(arg.entry[1])
  ELSE renderAllReportsHTML(entries)

\* generatePDFStart without the early return
generatePDFStartUnguarded(arg) ==
  [pc |-> "awaiting", original |-> container, kind |-> arg.kind,
   entry |-> arg.entry, error |-> "none", steps |-> <<"swap", "html2canvas">>]

\* generatePDF up to its await: the early return on a missing node, or the
\* saved original and the start of html2canvas
generatePDFStart(arg) ==
  IF reportRef = "null"
  THEN [pc |-> "returned", original |-> <<>>, kind |-> arg.kind,
        entry |-> arg.entry, error |-> "none", steps |-> <<>>]
  ELSE [pc |-> "awaiting", original |-> container, kind |-> arg.kind,
        entry |-> arg.entry, error |-> "none", steps |-> <<"swap", "html2canvas">>]

\* node.innerHTML after the synchronous part of generatePDF
Swapped(arg) == IF reportRef = "null" THEN container ELSE TargetLayout(arg)

generatePDF(arg) ==
  /\ HasFreeCall
  /\ calls' = [calls EXCEPT ![FreeCall] = generatePDFStart(arg)]
  /\ container' = Swapped(arg)
  /\ UNCHANGED <<entryVars, reportRef, download, downloads>>
  /\ UNCHANGED otherVars

\* pdf.addImage(imgData, "PNG", x, y, w, h) on the current (last) page
addImage(doc, x, y, w, h) ==
  [doc EXCEPT ![Len(doc)] = Append(@, [x |-> x, y |-> y, w |-> w, h |-> h])]

addPage(doc) == Append(doc, <<>>)

\* new jsPDF(...): a document of one empty page
NewPdf == << <<>> >>

\* the loop with the image shifted up by one page height per page, so that
\* page k shows the band that starts at k * pageHeight
RECURSIVE PaginationLoopBands(_, _, _, _)
PaginationLoopBands(doc, y, remaining, imgHeight) ==
  IF remaining > 0
  THEN LET placed == addImage(doc, 0, IF y # 0 THEN 0 - y ELSE 0, PageWidth, imgHeight)
           left == remaining - PageHeight
       IN PaginationLoopBands(IF left > 0 THEN addPage(placed) ELSE placed,
                              y + PageHeight, left, imgHeight)
  ELSE doc

\* while (remaining > 0) { addImage; remaining -= pageHeight;
\*                         if (remaining > 0) addPage; y += pageHeight }
RECURSIVE PaginationLoop(_, _, _, _)
PaginationLoop(doc, y, remaining, imgHeight) ==
  IF remaining > 0
  THEN LET placed == addImage(doc, 0, IF y # 0 THEN 0 ELSE 0, PageWidth, imgHeight)
           left == remaining - PageHeight
       IN PaginationLoop(IF left > 0 THEN addPage(placed) ELSE placed,
                         y + PageHeight, left, imgHeight)
  ELSE doc

\* the loop with "remaining >= 0" as the test for a further page
RECURSIVE PaginationLoopInclusive(_, _, _, _)
PaginationLoopInclusive(doc, y, remaining, imgHeight) ==
  IF remaining > 0
  THEN LET placed == addImage(doc, 0, 0, PageWidth, imgHeight)
           left == remaining - PageHeight
       IN PaginationLoopInclusive(IF left >= 0 THEN addPage(placed) ELSE placed,
                                  y + PageHeight, left, imgHeight)
  ELSE doc

PaginateInclusive(imgHeight) ==
  PaginationLoopInclusive(NewPdf, 0, imgHeight, imgHeight)

Paginate(imgHeight) == PaginationLoop(NewPdf, 0, imgHeight, imgHeight)

PdfName(call) ==
  IF call.kind = "one"
  THEN [prefix |-> "Daily-Report", date |-> LocalDate(call.entry[1].date),
        site |-> OrElse(call.entry[1].site, SiteFallback)]
  ELSE [prefix |-> "Daily-Reports", date |-> LocalDate(Today), site |-> <<>>]

PdfFile(call, imgHeight) ==
  [kind |-> "pdf", name |-> PdfName(call), pages |-> Paginate(imgHeight),
   json |-> <<>>]

\* what can throw between the await and the restore
Throwers == {"addImage", "save"}

\* the steps up to, and without, the one that throws
UpTo(steps, thrown) ==
  IF \E i \in 1..Len(steps) : steps[i] = thrown
  THEN SubSeq(steps, 1, (CHOOSE i \in 1..Len(steps) : steps[i] = thrown) - 1)
  ELSE steps

\* the step a throw happens in: addImage is called by the pagination loop
ThrownIn(thrown) == IF thrown = "addImage" THEN "pages" ELSE thrown

\* the statements after the await with the file saved before the pages
StepsSaveFirst(thrown) ==
  UpTo(<<"canvas", "save", "pages", "restore">>, ThrownIn(thrown))

\* the statements that follow the await, in statement order: the canvas is
\* there, the pagination loop, pdf.save, the restore; a throw ends them
StepsAfterAwait(thrown) ==
  UpTo(<<"canvas", "pages", "save", "restore">>, ThrownIn(thrown))

\* node.innerHTML after the part of generatePDF that follows the await
Restored(call, thrown) == IF thrown = "none" THEN call.original ELSE container

\* html2canvas resolves with a canvas of scaled height imgHeight and the rest
\* of generatePDF runs: toDataURL, the pagination loop, pdf.save, the restore.
\* A throw ends the call where it happens.
Html2CanvasResolves(i, imgHeight, thrown) ==
  /\ calls[i].pc = "awaiting"
  /\ thrown = "addImage" => imgHeight > 0
  /\ IF thrown = "none"
     THEN /\ download' = PdfFile(calls[i], imgHeight)
          /\ downloads' = downloads + 1
          /\ calls' = [calls EXCEPT ![i].pc = "saved",
                                    ![i].steps = @ \o StepsAfterAwait(thrown)]
     ELSE /\ calls' = [calls EXCEPT ![i].pc = "threw", ![i].error = thrown,
                                    ![i].steps = @ \o StepsAfterAwait(thrown)]
          /\ UNCHANGED <<download, downloads>>
  /\ container' = Restored(calls[i], thrown)
  /\ UNCHANGED <<entryVars, reportRef>>
  /\ UNCHANGED otherVars

\* html2canvas rejects: the await throws and generatePDF ends there
Html2CanvasRejects(i) ==
  /\ calls[i].pc = "awaiting"
  /\ calls' = [calls EXCEPT ![i].pc = "threw", ![i].error = "html2canvas"]
  /\ UNCHANGED <<entryVars, reportRef, container, download, downloads>>
  /\ UNCHANGED otherVars

(* -------------------------- category progress ----------------------- *)

HasKey(cp, key) == \E i \in 1..Len(cp) : cp[i].k = key

\* { ...cp, [key]: v }: an existing key keeps its place, a new one goes last
WithKey(cp, key, v) ==
  IF HasKey(cp, key)
  THEN [i \in 1..Len(cp) |-> IF cp[i].k = key THEN [k |-> key, v |-> v] ELSE cp[i]]
  ELSE Append(cp, [k |-> key, v |-> v])

\* delete cp[key]
WithoutKey(cp, key) == LET Keep(c) == c.k # key IN SelectSeq(cp, Keep)

\* min={0} max={100} of the range input
RangeMin == 0
RangeMax == 100

\* a range input without its max attribute
RangeValueNoMax(raw) == IF raw < RangeMin THEN RangeMin ELSE raw

\* e.target.value of <input type="range" min={0} max={100}>: the value the
\* user drags to, held between min and max by the input
RangeValue(raw) ==
  IF raw < RangeMin THEN RangeMin ELSE IF raw > RangeMax THEN RangeMax ELSE raw

\* positions a slider can be pushed to, one beyond either end included
SliderInputs == {RangeMin - 1, RangeMin, RangeMax, RangeMax + 1}

\* onChange of a category's slider
SetProgress(cat, raw) ==
  /\ reportRef = "node"
  /\ HasKey(form.categoryProgress, cat)
  /\ form' = [form EXCEPT !.categoryProgress = WithKey(@, cat, RangeValue(raw))]
  /\ UNCHANGED <<entries, storage, exportVars>>
  /\ UNCHANGED otherVars

\* what can be typed into "Add custom category"
CategoryInputs == {<<>>, <<" ">>, <<" ", "X">>, DEFAULT_CATEGORIES[1]}

\* the Add button of AddCategory and its onAdd
AddCategory(val) ==
  /\ reportRef = "node"
  /\ LET name == Trim(val) IN
       /\ name # <<>>
       /\ form' = [form EXCEPT !.categoryProgress =
                     IF HasKey(@, name) THEN @ ELSE WithKey(@, name, 0)]
  /\ UNCHANGED <<entries, storage, exportVars>>
  /\ UNCHANGED otherVars

IsDefaultCategory(cat) ==
  \E i \in 1..Len(DEFAULT_CATEGORIES) : DEFAULT_CATEGORIES[i] = cat

\* the Remove button, rendered for custom categories only
RemoveCategory(cat) ==
  /\ reportRef = "node"
  /\ HasKey(form.categoryProgress, cat)
  /\ ~IsDefaultCategory(cat)
  /\ form' = [form EXCEPT !.categoryProgress = WithoutKey(@, cat)]
  /\ UNCHANGED <<entries, storage, exportVars>>
  /\ UNCHANGED otherVars

(* ----------------------- the remote-store variant -------------------- *)

FIXED_PROJECT ==
  <<"P", "r", "i", "m", "e", " ", "1", "1", " ",
    "U", "n", "i", "t", " ", "2", "1", "3">>

CustomCategory == <<"X">>

\* rows of the remote table: has_progress is FALSE for a null category_progress
RowOld ==
  [id |-> <<"entry", "r1">>, entry_date |-> "2024-03-05", site |-> FIXED_PROJECT,
   has_progress |-> TRUE,
   category_progress |-> WithKey(ZeroProgress, DEFAULT_CATEGORIES[1], RangeMax)]

RowToday ==
  [id |-> <<"entry", "r2">>, entry_date |-> "2024-03-06", site |-> FIXED_PROJECT,
   has_progress |-> TRUE,
   category_progress |-> WithKey(ZeroProgress, CustomCategory, RangeMax)]

RowNull ==
  [id |-> <<"entry", "r3">>, entry_date |-> "2024-03-06", site |-> FIXED_PROJECT,
   has_progress |-> FALSE, category_progress |-> <<>>]

\* tables the page can find at start-up; the first row is the newest
RowLists == {<<>>, <<RowOld>>, <<RowOld, RowToday>>, <<RowNull, RowOld>>}

\* the one of them that gives both start-up effects something to read
ProgressRowLists == {<<RowOld, RowToday>>}

DayNumber(d) == IF d = "2024-03-05" THEN 5 ELSE 6

\* .eq("site", ...).order("entry_date", desc).order("created_at", desc).limit(1)
LatestRows(site) ==
  LET ofSite == SelectSeq(rows, LAMBDA r : r.site = site)
      newest(i) == \A j \in 1..Len(ofSite) :
                     \/ DayNumber(ofSite[j].entry_date) < DayNumber(ofSite[i].entry_date)
                     \/ DayNumber(ofSite[j].entry_date) = DayNumber(ofSite[i].entry_date)
                          /\ i <= j
  IN SelectSeq([i \in 1..Len(ofSite) |-> [row |-> ofSite[i], first |-> newest(i)]],
               LAMBDA x : x.first)

\* the draft the remote-store page is constructed with and resets to
RemoteResetFormTo(id) == BlankEntry(id, FIXED_PROJECT)

InitRemote ==
  /\ rows \in RowLists
  /\ entries = <<>>
  /\ storage = JSONStringify(<<>>)
  /\ form \in {RemoteResetFormTo(id) : id \in uid("entry")}
  /\ reportRef = "null"
  /\ container = <<>>
  /\ calls = [i \in 1..MaxCalls |-> NoCall]
  /\ download = NoFile
  /\ downloads = 0
  /\ effects = [prefill |-> "pending", load |-> "pending"]
  /\ rendered = NotRendered
  /\ timezone = 0
  /\ uploads = <<>>
  /\ lookups = <<>>

\* the draft after the prefill query has answered
Prefilled(f, failed) ==
  LET found == LatestRows(FIXED_PROJECT) IN
    IF ~failed /\ found # <<>> /\ found[1].row.has_progress
    THEN [f EXCEPT !.categoryProgress = found[1].row.category_progress]
    ELSE f

\* useEffect "Prefill progress from MOST RECENT entry": the query answers
PrefillEffect(failed) ==
  /\ reportRef = "node"
  /\ effects.prefill = "pending"
  /\ effects' = [effects EXCEPT !.prefill = "done"]
  /\ form' = Prefilled(form, failed)
  /\ UNCHANGED <<entries, storage, exportVars, rows, rendered>>
  /\ UNCHANGED <<timezone, uploads, lookups>>

RowToEntry(row) ==
  [BlankEntry(row.id, row.site) EXCEPT
     !.date = row.entry_date,
     !.categoryProgress = IF row.has_progress THEN row.category_progress ELSE <<>>]

TodaysRows ==
  SelectSeq(rows, LAMBDA r : r.site = FIXED_PROJECT /\ r.entry_date = LocalDate(Today))

\* useEffect "Load today's entries": the query answers
LoadTodayEffect(failed) ==
  /\ reportRef = "node"
  /\ effects.load = "pending"
  /\ effects' = [effects EXCEPT !.load = "done"]
  /\ entries' = IF failed THEN entries
                ELSE [i \in 1..Len(TodaysRows) |-> RowToEntry(TodaysRows[i])]
  /\ UNCHANGED <<storage, form, exportVars, rows, rendered>>
  /\ UNCHANGED <<timezone, uploads, lookups>>

\* resetForm of the remote-store page ("Clear Form")
resetFormRemote ==
  /\ reportRef = "node"
  /\ \E id \in uid("entry") : form' = RemoteResetFormTo(id)
  /\ UNCHANGED <<entries, storage, exportVars>>
  /\ UNCHANGED otherVars

(* ------------------------- rendering one entry ----------------------- *)

SpecialChars == {"&", "<", ">", "\"", "'"}

\* values a text field can hold
Texts ==
  {<<c>> : c \in SpecialChars}
    \cup {<<>>, <<"a">>, <<"a", "<", "b">>, <<"&", "&">>,
          <<"<", ">", "&", "\"", "'">>}

RenderBase ==
  [BlankEntry(<<"entry", "a">>, <<"P">>) EXCEPT
     !.materialsRequired = TRUE,
     !.materialItems = <<BlankItem(<<"mat", "a">>)>>,
     !.categoryProgress = WithKey(ZeroProgress, CustomCategory, RangeMax)]

\* entries that differ from RenderBase in one text value
RenderInputs ==
  UNION {
    { [RenderBase EXCEPT !.site = t], [RenderBase EXCEPT !.area = t],
      [RenderBase EXCEPT !.weather = t], [RenderBase EXCEPT !.manpower = t],
      [RenderBase EXCEPT !.obstacles = t], [RenderBase EXCEPT !.safetyIncidents = t],
      [RenderBase EXCEPT !.notes = t],
      [RenderBase EXCEPT !.categoryProgress = WithKey(ZeroProgress, t, RangeMax)],
      [RenderBase EXCEPT !.materialItems[1].name = t],
      [RenderBase EXCEPT !.materialItems[1].quantity = t],
      [RenderBase EXCEPT !.materialItems[1].neededBy = t],
      [RenderBase EXCEPT !.materialItems[1].notes = t] } : t \in Texts }

\* one evaluation of renderReportHTML; the function keeps nothing between
\* evaluations, so a run holds one
Render(e) ==
  /\ rendered.kind = "none"
  /\ rendered' = [kind |-> "one", arg |-> e, out |-> renderReportHTML(e)]
  /\ UNCHANGED <<entryVars, exportVars, rows, effects>>
  /\ UNCHANGED <<timezone, uploads, lookups>>

\* entries a list can hold
EntryChoices ==
  {[RenderBase EXCEPT !.site = t, !.materialsRequired = req] :
     t \in {<<"A">>, <<"B">>}, req \in BOOLEAN}

EntryLists == UNION {[1..n -> EntryChoices] : n \in 0..MaxRenderEntries}

\* one evaluation of renderAllReportsHTML
RenderAll(all) ==
  /\ rendered.kind = "none"
  /\ rendered' = [kind |-> "all", arg |-> all, out |-> renderAllReportsHTML(all)]
  /\ UNCHANGED <<entryVars, exportVars, rows, effects>>
  /\ UNCHANGED <<timezone, uploads, lookups>>

\* material items an entry can hold
ItemChoices ==
  {[BlankItem(<<"mat", "a">>) EXCEPT !.name = n, !.quantity = q] :
     n \in {<<>>, <<"a">>, <<"b">>, <<"N", "o">>}, q \in {<<>>, <<"1">>}}

ItemLists == UNION {[1..n -> ItemChoices] : n \in 0..MaxRenderItems}

\* entries that differ in the Materials Required switch and in their items
MaterialInputs ==
  {[RenderBase EXCEPT !.materialsRequired = req, !.materialItems = items] :
     req \in BOOLEAN, items \in ItemLists}

(* --------------------------- specifications -------------------------- *)

\* the entry list and the draft
Next ==
  \/ Mount
  \/ \E v \in SiteInputs : SetSite(v)
  \/ resetForm
  \/ saveEntry
  \/ \E i \in 1..Len(entries) : deleteEntry(entries[i].id)

Spec == Init /\ [][Next]_vars

\* the exports of a session that starts from a stored list
NextExport ==
  \/ Mount
  \/ exportJSON
  \/ \E arg \in PdfArgs : generatePDF(arg)
  \/ \E i \in 1..MaxCalls, h \in 0..MaxImgHeight, t \in Throwers \cup {"none"} :
       Html2CanvasResolves(i, h, t)
  \/ \E i \in 1..MaxCalls : Html2CanvasRejects(i)

SpecExport == InitExport /\ [][NextExport]_vars

\* the PDF exports that succeed, in any time zone
NextFileName ==
  \/ Mount
  \/ \E arg \in PdfArgs : generatePDF(arg)
  \/ \E i \in 1..MaxCalls, h \in 0..MaxImgHeight : Html2CanvasResolves(i, h, "none")

SpecFileName == InitZones /\ [][NextFileName]_vars

ProgressEdits ==
  \/ \E i \in 1..Len(form.categoryProgress), raw \in SliderInputs :
       SetProgress(form.categoryProgress[i].k, raw)
  \/ \E val \in CategoryInputs : AddCategory(val)
  \/ \E i \in 1..Len(form.categoryProgress) :
       RemoveCategory(form.categoryProgress[i].k)

\* every operation of either variant of the page that writes a
\* categoryProgress: the sliders and custom categories, reset, save and delete
\* of the local page, the two start-up effects of the remote-store page
InitProgress ==
  /\ InitWith(<<>>)
  /\ rows \in ProgressRowLists
  /\ effects = [prefill |-> "pending", load |-> "pending"]
  /\ rendered = NotRendered
  /\ timezone = 0
  /\ uploads = <<>>
  /\ lookups = <<>>

NextProgress ==
  \/ Mount
  \/ ProgressEdits
  \/ resetForm
  \/ saveEntry
  \/ \E i \in 1..Len(entries) : deleteEntry(entries[i].id)
  \/ \E failed \in BOOLEAN : PrefillEffect(failed)
  \/ \E failed \in BOOLEAN : LoadTodayEffect(failed)

SpecProgress == InitProgress /\ [][NextProgress]_vars

\* the remote-store page: its start-up effects, its reset, the progress inputs
NextRemote ==
  \/ Mount
  \/ ProgressEdits
  \/ resetFormRemote
  \/ \E failed \in BOOLEAN : PrefillEffect(failed)
  \/ \E failed \in BOOLEAN : LoadTodayEffect(failed)

SpecRemote == InitRemote /\ [][NextRemote]_vars

\* the material items and the photos of the draft
NextItems ==
  \/ Mount
  \/ addMaterialItem
  \/ \E i \in 1..Len(form.materialItems), patch \in Patches :
       updateMaterialItem(form.materialItems[i].id, patch)
  \/ \E i \in 1..Len(form.materialItems) :
       removeMaterialItem(form.materialItems[i].id)
  \/ \E files \in FileLists : onPhotoUpload(files)
  \/ \E u \in 1..Len(uploads), ok \in BOOLEAN : PhotoReadsSettle(u, ok)
  \/ \E i \in 1..Len(form.photos) : removePhoto(i - 1)

SpecItems == Init /\ [][NextItems]_vars

\* renderAllReportsHTML on lists of entries
NextRenderAll == \E all \in EntryLists : RenderAll(all)

SpecRenderAll == Init /\ [][NextRenderAll]_vars

\* the entry list and its persisted copy, with photos in the draft
NextStorage ==
  \/ Mount
  \/ \E files \in FileLists : onPhotoUpload(files)
  \/ \E u \in 1..Len(uploads), ok \in BOOLEAN : PhotoReadsSettle(u, ok)
  \/ \E i \in 1..Len(form.photos) : removePhoto(i - 1)
  \/ saveEntry
  \/ \E i \in 1..Len(entries) : deleteEntry(entries[i].id)

SpecStorage == Init /\ [][NextStorage]_vars

\* the asynchronous handlers and the handlers that replace the draft
NextAsync ==
  \/ Mount
  \/ \E files \in FileLists : onPhotoUpload(files)
  \/ \E u \in 1..Len(uploads), ok \in BOOLEAN : PhotoReadsSettle(u, ok)
  \/ fillWeatherFromLocation
  \/ \E l \in 1..Len(lookups), data \in WeatherAnswers : WeatherResolves(l, data)
  \/ \E l \in 1..Len(lookups), err \in ErrorTexts : WeatherFails(l, err)
  \/ saveEntry
  \/ resetForm

SpecAsync == Init /\ [][NextAsync]_vars

\* the weather field: typing, the lookup and its outcomes, save and reset
NextWeather ==
  \/ Mount
  \/ \E v \in WeatherInputs : SetWeather(v)
  \/ fillWeatherFromLocation
  \/ \E l \in 1..Len(lookups), data \in WeatherAnswers : WeatherResolves(l, data)
  \/ \E l \in 1..Len(lookups), err \in ErrorTexts : WeatherFails(l, err)
  \/ saveEntry
  \/ resetForm

SpecWeather == Init /\ [][NextWeather]_vars

\* renderReportHTML on its own
NextRender == \E e \in RenderInputs : Render(e)

SpecRender == Init /\ [][NextRender]_vars

\* renderReportHTML on entries with and without material items
NextMaterials == \E e \in MaterialInputs : Render(e)

SpecMaterials == Init /\ [][NextMaterials]_vars

(* ------------------------- claims: the exports ----------------------- *)

CallEnds(i) == calls[i].pc = "awaiting" /\ calls'[i].pc \in {"saved", "threw"}

\* C1: when a generatePDF call ends, normally or by a failure of html2canvas,
\* of the page assembly or of pdf.save, the container holds the contents the
\* call saved at its start.
C1_RestoredOnEveryExit ==
  [][\A i \in 1..MaxCalls : CallEnds(i) => container' = calls[i].original]_vars

NoCallInFlight == \A i \in 1..MaxCalls : calls[i].pc # "awaiting"

NoCallThrew == \A i \in 1..MaxCalls : calls[i].pc # "threw"

\* C2: whenever no generatePDF call is in flight, the container holds the
\* contents it had before the first call began (the empty render target),
\* for every interleaving of calls; stated for the runs in which no call
\* throws, so that the interleaving alone decides it.
C2_RestoredWhenIdle ==
  (NoCallInFlight /\ NoCallThrew) => container = <<>>

\* C3: the document a call saves has exactly one page when the scaled image
\* height is at most the page height (0 and the page height included) and at
\* least two pages when it is larger.
C3_PageCount ==
  [][\A i \in 1..MaxCalls, h \in 0..MaxImgHeight :
       Html2CanvasResolves(i, h, "none") =>
         /\ download'.kind = "pdf"
         /\ h <= PageHeight => Len(download'.pages) = 1
         /\ h > PageHeight => Len(download'.pages) >= 2]_vars

\* C3 witness: a saved document of one page that holds an image exactly one
\* page high.
C3_Witness ==
  /\ download.kind = "pdf"
  /\ Len(download.pages) = 1
  /\ download.pages[1] # <<>>
  /\ download.pages[1][1].h = PageHeight

NothingEmitted ==
  /\ UNCHANGED <<container, download, downloads, entries, storage, form>>
  /\ \A i \in 1..MaxCalls : calls'[i].pc = "awaiting" => calls[i].pc = "awaiting"

ExportStep ==
  \/ exportJSON
  \/ \E arg \in PdfArgs : generatePDF(arg)
  \/ \E i \in 1..MaxCalls, h \in 0..MaxImgHeight, t \in Throwers \cup {"none"} :
       Html2CanvasResolves(i, h, t)
  \/ \E i \in 1..MaxCalls : Html2CanvasRejects(i)

\* C5: no step of exportJSON or generatePDF, on success or on failure,
\* changes the entry list, the persisted list or the form draft.
C5_ExportsKeepEntryState ==
  [][ExportStep => UNCHANGED <<entries, storage, form>>]_vars

\* C5 witness: with entries in the list, one PDF export has saved its file and
\* another has failed.
C5_Witness ==
  /\ entries # <<>>
  /\ \E i \in 1..MaxCalls : calls[i].pc = "saved"
  /\ \E i \in 1..MaxCalls : calls[i].pc = "threw"

Positions(steps, names) == {i \in 1..Len(steps) : steps[i] \in names}

\* every step of the first kind comes before every step of the second
Before(steps, first, second) ==
  \A i \in Positions(steps, first), j \in Positions(steps, second) : i < j

\* C16: within one generatePDF call the container is swapped first, then
\* rasterization completes, then the pages are assembled, then the file is
\* saved, and only then the container is restored: no page is assembled
\* before the canvas is there, the file is not saved before the pages, and
\* while the call awaits the canvas nothing but the swap has happened.
C16_StepOrder ==
  \A i \in 1..MaxCalls :
    LET steps == calls[i].steps IN
      /\ Before(steps, {"swap"}, {"html2canvas", "canvas", "pages", "save", "restore"})
      /\ Before(steps, {"html2canvas"}, {"canvas"})
      /\ Before(steps, {"canvas"}, {"pages"})
      /\ Before(steps, {"pages"}, {"save"})
      /\ Before(steps, {"save"}, {"restore"})
      /\ \A name \in {"pages", "save", "restore"} :
           Positions(steps, {name}) # {} => Positions(steps, {"canvas"}) # {}
      /\ Positions(steps, {"save"}) # {} => Positions(steps, {"pages"}) # {}
      /\ Positions(steps, {"restore"}) # {} => Positions(steps, {"save"}) # {}
      /\ calls[i].pc = "awaiting" => steps = <<"swap", "html2canvas">>
      /\ calls[i].pc = "saved" => steps[Len(steps)] = "restore"

\* C16 witness: one call has saved a document of two pages and another has
\* ended in the pagination loop.
C16_Witness ==
  /\ \E i \in 1..MaxCalls : calls[i].pc = "saved"
  /\ \E i \in 1..MaxCalls : calls[i].error = "addImage"
  /\ download.kind = "pdf" /\ Len(download.pages) = 2

\* C17: every page the pagination loop emits holds the entire image, at its
\* full scaled width and height, at offset 0: the first page and every later
\* page alike, none cropped or shifted to its own band.
C17_FullImageEveryPage ==
  [][\A i \in 1..MaxCalls, h \in 1..MaxImgHeight :
       Html2CanvasResolves(i, h, "none") =>
         \A k \in 1..Len(download'.pages) :
           download'.pages[k] = <<[x |-> 0, y |-> 0, w |-> PageWidth, h |-> h]>>]_vars

\* C17 witness: a saved document whose second page holds the image.
C17_Witness ==
  /\ download.kind = "pdf"
  /\ Len(download.pages) >= 2
  /\ download.pages[2] # <<>>
  /\ download.pages[2][1].h > PageHeight

\* the calendar date of an entry, as the date input and the list show it
EntryDate(e) == DayText(ParseDate(e.date).day)

\* Daily-Report_<YYYY-MM-DD>_<site>.pdf / Daily-Reports_<YYYY-MM-DD>.pdf
NamedFor(call) ==
  IF call.kind = "one"
  THEN [prefix |-> "Daily-Report", date |-> EntryDate(call.entry[1]),
        site |-> call.entry[1].site]
  ELSE [prefix |-> "Daily-Reports", date |-> DayText(LocalDay(ParseDate(Today), timezone)),
        site |-> <<>>]

\* C12: the file generatePDF saves is named Daily-Report_<date>_<site>.pdf
\* for a single entry, with the entry's date and the entry's site whatever
\* the site is, the empty one included, and Daily-Reports_<date>.pdf with
\* the current date for a batch export.
C12_FileName ==
  [][\A i \in 1..MaxCalls, h \in 0..MaxImgHeight :
       Html2CanvasResolves(i, h, "none") => download'.name = NamedFor(calls[i])]_vars

(* ------------------- claims: the entry list and ids ------------------ *)

Distinct(seq) ==
  \A i, j \in 1..Len(seq) : i # j => seq[i].id # seq[j].id

\* C8: ids are never reused: the entries of the list have pairwise distinct
\* ids, the draft's id differs from the id of every saved entry, and the
\* material items of the draft have pairwise distinct ids.
C8_IdsNeverReused ==
  /\ Distinct(entries)
  /\ \A i \in 1..Len(entries) : form.id # entries[i].id
  /\ Distinct(form.materialItems)

WithoutId(list, id) == LET Other(e) == e.id # id IN SelectSeq(list, Other)

C18_StorageFollowsEntries ==
  [][/\ saveEntry =>
          /\ JSONParse(storage') = entries'
          /\ entries' = <<Cleaned(form)>> \o entries
     /\ \A i \in 1..Len(entries) :
          deleteEntry(entries[i].id) =>
            /\ JSONParse(storage') = entries'
            /\ entries' = WithoutId(entries, entries[i].id)]_vars

(* ---------------------- claims: category progress -------------------- *)

InRange(cp) ==
  \A i \in 1..Len(cp) : cp[i].v \in Int /\ 0 <= cp[i].v /\ cp[i].v <= 100

ValueOf(cp, key) == (CHOOSE c \in Range(cp) : c.k = key).v

ProgressInRange ==
  /\ InRange(form.categoryProgress)
  /\ \A i \in 1..Len(entries) : InRange(entries[i].categoryProgress)
  /\ \A i \in 1..Len(JSONParse(storage)) :
       InRange(JSONParse(storage)[i].categoryProgress)

CarriedForward(site) ==
  LET found == LatestRows(site) IN
    IF found # <<>> /\ found[1].row.has_progress
    THEN found[1].row.category_progress
    ELSE ZeroProgress

\* C7: a new blank draft for the known site, the one resetForm creates
\* included, has the categoryProgress of the most recently dated stored entry
\* of that site when there is one, and the all-zero defaults otherwise.
C7_ResetCarriesForward ==
  [][resetFormRemote => form'.categoryProgress = CarriedForward(form'.site)]_vars

(* --------------------------- claims: escaping ------------------------ *)

Entity(c) ==
  IF c = "&" THEN "&amp;" ELSE IF c = "<" THEN "&lt;" ELSE IF c = ">" THEN "&gt;"
  ELSE IF c = "\"" THEN "&quot;" ELSE IF c = "'" THEN "&#39;" ELSE c

\* the pieces a value is to contribute: each character, the five as entities
Escaped(text) == [i \in 1..Len(text) |-> [k |-> "text", v |-> Entity(text[i])]]

Contains(out, part) ==
  \E at \in 0..(Len(out) - Len(part)) :
    \A i \in 1..Len(part) : out[at + i] = part[i]

NoRawSpecial(out) ==
  \A i \in 1..Len(out) : out[i].k = "text" => out[i].v \notin SpecialChars

TextValues(e) ==
  {e.site, e.area, e.weather, e.manpower, e.obstacles, e.safetyIncidents, e.notes}
    \cup {e.categoryProgress[i].k : i \in 1..Len(e.categoryProgress)}
    \cup UNION {{e.materialItems[i].name, e.materialItems[i].quantity,
                 e.materialItems[i].neededBy, e.materialItems[i].notes}
                  : i \in 1..Len(e.materialItems)}

\* C10: in the markup of an entry every free-text value (site, area, weather,
\* manpower, obstacles, safetyIncidents, notes, the category names, and each
\* material item's name, quantity, neededBy and notes) appears with & < > " '
\* replaced by their entities, and no value contributes one of the five raw.
C10_EveryValueEscaped ==
  rendered.out # <<>> =>
    /\ \A t \in TextValues(rendered.arg) : Contains(rendered.out, Escaped(t))
    /\ NoRawSpecial(rendered.out)

(* ----------------------- claims: the materials block ----------------- *)

IndexOf(out, piece) == CHOOSE i \in 1..Len(out) : out[i] = piece

\* the part of the markup between the "Materials Required" heading and the
\* end of its block
MaterialsBlock(out) ==
  LET from == IndexOf(out, Markup("</table></div><div><h3>Materials Required</h3>")[1])
      rest == SubSeq(out, from + 1, Len(out))
      to == IndexOf(rest, Markup("</div>")[1])
  IN SubSeq(rest, 1, to - 1)

RowStart == Markup("<tr><td>")[1]

\* where the rows of a block begin, in order
RowStarts(block) ==
  SelectSeq([i \in 1..Len(block) |-> IF block[i] = RowStart THEN i ELSE 0],
            LAMBDA i : i # 0)

\* the text pieces that follow position i up to the next piece of markup
CellAt(block, i) ==
  LET end == CHOOSE j \in (i + 1)..Len(block) :
               block[j].k = "markup" /\ \A l \in (i + 1)..(j - 1) : block[l].k = "text"
  IN SubSeq(block, i + 1, end - 1)

\* C11: the markup of an entry holds the materials table, with one row per
\* material item in the order of the items, exactly when materialsRequired is
\* true and there is at least one item; in every other case it holds the
\* "No" placeholder block and no material row.
C11_MaterialsTable ==
  rendered.out # <<>> =>
    LET e == rendered.arg
        block == MaterialsBlock(rendered.out)
        starts == RowStarts(block)
    IN IF e.materialsRequired /\ Len(e.materialItems) > 0
       THEN /\ Head(block).k = "markup" /\ Head(block) # Markup("<div>No</div>")[1]
            /\ block[Len(block)] = Markup("</table>")[1]
            /\ Len(starts) = Len(e.materialItems)
            /\ \A r \in 1..Len(starts) :
                 CellAt(block, starts[r]) = Escaped(e.materialItems[r].name)
            /\ \A i \in 1..Len(block) : block[i] # Markup("<div>No</div>")[1]
       ELSE block = Markup("<div>No</div>")

\* C11 witness: an entry with the switch on and two items of different names
\* has been rendered.
C11_Witness ==
  /\ rendered.out # <<>>
  /\ rendered.arg.materialsRequired
  /\ Len(rendered.arg.materialItems) = 2
  /\ rendered.arg.materialItems[1].name # rendered.arg.materialItems[2].name

(* -------------------- claims: the order of the draft ----------------- *)

\* a sequence without its element at position t
WithoutIndex(seq, t) ==
  [i \in 1..(Len(seq) - 1) |-> IF i < t THEN seq[i] ELSE seq[i + 1]]

ItemIdsKept == 
  /\ Len(form'.materialItems) = Len(form.materialItems)
  /\ \A i \in 1..Len(form.materialItems) :
       form'.materialItems[i].id = form.materialItems[i].id

\* C13: the material items and the photos of the draft keep insertion order:
\* an add puts the new element last and leaves the others as they are, a
\* removal takes out the targeted element only, and an update changes the
\* fields of the targeted item only and moves nothing.
C13_InsertionOrder ==
  [][/\ addMaterialItem =>
          /\ Len(form'.materialItems) = Len(form.materialItems) + 1
          /\ SubSeq(form'.materialItems, 1, Len(form.materialItems)) = form.materialItems
     /\ \A t \in 1..Len(form.materialItems) :
          /\ removeMaterialItem(form.materialItems[t].id) =>
               form'.materialItems = WithoutIndex(form.materialItems, t)
          /\ \A patch \in Patches :
               updateMaterialItem(form.materialItems[t].id, patch) =>
                 /\ ItemIdsKept
                 /\ \A i \in 1..Len(form.materialItems) :
                      i # t => form'.materialItems[i] = form.materialItems[i]
     /\ \A u \in 1..Len(uploads) :
          PhotoReadsSettle(u, TRUE) =>
            /\ Len(form'.photos) = Len(form.photos) + Len(uploads[u].files)
            /\ SubSeq(form'.photos, 1, Len(form.photos)) = form.photos
     /\ \A t \in 1..Len(form.photos) :
          removePhoto(t - 1) => form'.photos = WithoutIndex(form.photos, t)
    ]_vars

(* ------------------------ claims: the weather lookup ----------------- *)

\* a step in which a lookup ends without a forecast: the catch block ran, or
\* the service answered with an error body
LookupFailsStep(l) ==
  \/ \E err \in ErrorTexts : WeatherFails(l, err)
  \/ \E data \in WeatherAnswers : data.error /\ WeatherResolves(l, data)

\* C14: a failed geolocation or weather fetch never aborts entry creation and
\* falls back to the text the user entered: a non-empty weather field keeps
\* its value, an empty one receives a failure message, every other field of
\* the draft and the entry list are unchanged, and saveEntry stays possible.
C14_WeatherFallback ==
  /\ [][\A l \in 1..Len(lookups) :
          LookupFailsStep(l) =>
            /\ form.weather # <<>> => form'.weather = form.weather
            /\ form.weather = <<>> =>
                 \E err \in ErrorTexts : form'.weather = LookupFailed(err)
            /\ form' = [form EXCEPT !.weather = form'.weather]
            /\ UNCHANGED <<entries, storage>>]_vars
  /\ []((reportRef = "node" /\ Len(entries) < MaxEntries) => ENABLED saveEntry)

(* ------------------------ claims: the batch layout ------------------- *)

\* the parts of a markup between its page-break markers
RECURSIVE SplitAtBreaks(_)
SplitAtBreaks(out) ==
  IF \A i \in 1..Len(out) : out[i] # PageBreak[1] THEN <<out>>
  ELSE LET at == CHOOSE i \in 1..Len(out) :
                   out[i] = PageBreak[1] /\ \A j \in 1..(i - 1) : out[j] # PageBreak[1]
       IN <<SubSeq(out, 1, at - 1)>> \o SplitAtBreaks(SubSeq(out, at + 1, Len(out)))

Breaks(out) == Cardinality({i \in 1..Len(out) : out[i] = PageBreak[1]})

\* C15: the markup of a list of n entries is the markup of each entry in list
\* order with exactly one page-break marker between two neighbours: n-1
\* markers for n >= 1, none in front and none at the end, and the empty
\* markup for the empty list.
C15_BatchLayout ==
  rendered.kind = "all" =>
    LET all == rendered.arg
        out == rendered.out
    IN IF all = <<>> THEN out = <<>>
       ELSE /\ Breaks(out) = Len(all) - 1
            /\ Head(out) # PageBreak[1]
            /\ out[Len(out)] # PageBreak[1]
            /\ SplitAtBreaks(out) = [i \in 1..Len(all) |-> renderReportHTML(all[i])]

\* C15 witness: a list of three entries, no two neighbours alike, has been
\* rendered.
C15_Witness ==
  /\ rendered.kind = "all"
  /\ Len(rendered.arg) = 3
  /\ rendered.arg[1] # rendered.arg[2]
  /\ rendered.arg[2] # rendered.arg[3]

(* --------------------- claims: completions and drafts ---------------- *)

\* C19: photos and weather text reach only the draft they were requested
\* for: when the draft on screen has another id than the one the upload or
\* the lookup was started on (saveEntry or resetForm has replaced it), the
\* completion adds no photo and writes no weather text to it.
C19_CompletionsKeepToTheirDraft ==
  [][/\ \A u \in 1..Len(uploads) :
          (uploads[u].draft # form.id /\ PhotoReadsSettle(u, TRUE)) =>
            form'.photos = form.photos
     /\ \A l \in 1..Len(lookups) :
          (/\ lookups[l].draft # form.id
           /\ \/ \E data \in WeatherAnswers : WeatherResolves(l, data)
              \/ \E err \in ErrorTexts : WeatherFails(l, err)) =>
            form'.weather = form.weather]_vars

====
